---------------------------- MODULE Spec2Model ----------------------------
(***************************************************************************)
(* Model of src/lambda_fuction.py: one Lambda handler that fetches a       *)
(* secret, parses it, opens a database connection, runs one query, logs    *)
(* and returns the first column of the first row, and closes the cursor    *)
(* and the connection; one outer try/except turns any Exception into a     *)
(* 500 response.                                                           *)
(*                                                                         *)
(* Python strings are sequences of characters.  A character is a TLA+      *)
(* string of length one; the line feed is "\n" and the code point U+00E9   *)
(* is written "U+00E9".  json.dumps, str() and the f-strings are modelled  *)
(* character by character.                                                 *)
(***************************************************************************)
EXTENDS Integers, Sequences, FiniteSets, TLC

VARIABLES
    pc,           \* position of the invocation in lambda_handler
    event,        \* the event argument of the current invocation
    context,      \* the context argument of the current invocation
    requested,    \* SecretIds passed to get_secret_value in this invocation
    response,     \* get_secret_value_response (line 17)
    secret,       \* the value json.loads returned (line 23 / 49)
    connection,   \* state of the pyodbc connection: "none", "open", "closed"
    cursor,       \* state of the cursor: "none", "open", "closed"
    row,          \* the value cursor.fetchone() returned (line 55)
    exc,          \* the exception propagating to the handler's except clause
    result,       \* the value lambda_handler returned
    logs,         \* records emitted through logger in this invocation
    steps,        \* the steps attempted in this invocation, in order
    responses,    \* what the collaborators answered in this invocation
    raised,       \* the step that raised and the exception it raised first
    prev,         \* a remembered earlier invocation (responses and result)
    invocations   \* number of invocations started

vars == <<pc, event, context, requested, response, secret, connection, cursor,
          row, exc, result, logs, steps, responses, raised, prev, invocations>>

----------------------------------------------------------------------------
(* Bounds and input domains *)

MaxInvocations == 2

Inputs == { [event |-> <<"a">>, context |-> "ctx1"],
            [event |-> <<"b">>, context |-> "ctx2"] }

\* str(e) of the errors the SDK and the driver raise: a plain text and a
\* text with characters that JSON escapes (pyodbc errors print as a tuple
\* repr with double quotes; server names carry backslashes)
ErrTexts == { <<"d","o","w","n">>,
              <<"(","\"","n","o","\\","d","b","\"",")","\n","U+00E9">> }

PyNone == [t |-> "NoneType"]

\* first column of the first row: a version string, one with an escaped
\* character, or SQL NULL
Columns == { [t |-> "str", v |-> <<"S","Q","L"," ","1","9">>],
             [t |-> "str", v |-> <<"1","5","\\","\"","x">>],
             PyNone }

----------------------------------------------------------------------------
(* String constants of the source *)

SecretName == <<"y","o","u","r","_","s","e","c","r","e","t","_","n","a","m","e">>
DbVersionPrefix == <<"D","a","t","a","b","a","s","e"," ","v","e","r","s","i","o","n",":"," ">>
ErrorPrefix == <<"E","r","r","o","r",":"," ">>
SecretErrPrefix == <<"E","r","r","o","r"," ","r","e","t","r","i","e","v","i","n","g"," ","s","e","c","r","e","t",":"," ">>
ConnectErrPrefix == <<"E","r","r","o","r"," ","c","o","n","n","e","c","t","i","n","g"," ","t","o"," ","M","S"," ","S","Q","L"," ","S","e","r","v","e","r",":"," ">>
HandlerErrPrefix == <<"E","r","r","o","r"," ","i","n"," ","l","a","m","b","d","a","_","h","a","n","d","l","e","r",":"," ">>
SecretStringKey == <<"S","e","c","r","e","t","S","t","r","i","n","g">>
StatusOK == 200
StatusError == 500

\* the keys connect_to_mssql reads, in the order the f-string reads them
CredentialKeys == << <<"h","o","s","t">>,
                     <<"d","a","t","a","b","a","s","e">>,
                     <<"u","s","e","r","n","a","m","e">>,
                     <<"p","a","s","s","w","o","r","d">> >>

KeySet == { CredentialKeys[i] : i \in 1..Len(CredentialKeys) }

\* messages of the interpreter's own exceptions
NoneText == <<"N","o","n","e">>
NotSubscriptable == <<"'","N","o","n","e","T","y","p","e","'"," ","o","b","j","e","c","t"," ","i","s"," ","n","o","t"," ","s","u","b","s","c","r","i","p","t","a","b","l","e">>
ListIndex == <<"l","i","s","t"," ","i","n","d","i","c","e","s"," ","m","u","s","t"," ","b","e"," ","i","n","t","e","g","e","r","s"," ","o","r"," ","s","l","i","c","e","s",","," ","n","o","t"," ","s","t","r">>
ExpectingValue == <<"E","x","p","e","c","t","i","n","g"," ","v","a","l","u","e",":"," ","l","i","n","e"," ","1"," ","c","o","l","u","m","n"," ","1"," ","(","c","h","a","r"," ","0",")">>

----------------------------------------------------------------------------
(* Python values and pure functions *)

NoExc == [type |-> "None", arg |-> <<>>]

Error(type, arg) == [type |-> type, arg |-> arg]

\* the classes of the exceptions that can be raised; all derive from Exception
ExceptionClasses == {"ClientError", "KeyError", "TypeError", "JSONDecodeError",
                     "pyodbc.Error"}

\* str(e): KeyError prints the repr of its key, the others their message
ExcStr(e) ==
    IF e.type = "KeyError" THEN <<"'">> \o e.arg \o <<"'">> ELSE e.arg

\* format(v, "") inside an f-string
PyStr(v) == IF v = PyNone THEN NoneText ELSE v.v

\* json.dumps escapes of one character (ensure_ascii=True)
JsonEscape(c) ==
    CASE c = "\""     -> <<"\\", "\"">>
      [] c = "\\"     -> <<"\\", "\\">>
      [] c = "\n"     -> <<"\\", "n">>
      [] c = "U+00E9" -> <<"\\", "u", "0", "0", "e", "9">>
      [] OTHER        -> <<c>>

RECURSIVE JsonEscapeAll(_)
JsonEscapeAll(s) ==
    IF s = <<>> THEN <<>> ELSE JsonEscape(Head(s)) \o JsonEscapeAll(Tail(s))

\* json.dumps of a str
JsonDumps(s) == <<"\"">> \o JsonEscapeAll(s) \o <<"\"">>

\* the documents a SecretString may hold
Docs == { [kind |-> "invalid", keys |-> {}], [kind |-> "array", keys |-> {}] }
        \cup { [kind |-> "object", keys |-> K] : K \in SUBSET KeySet }

\* what get_secret_value may return: a string secret or a binary one
SecretResponses == { [hasSecretString |-> TRUE, doc |-> d] : d \in Docs }
                   \cup { [hasSecretString |-> FALSE, doc |-> [kind |-> "invalid", keys |-> {}]] }

NoResponse == [hasSecretString |-> FALSE, doc |-> [kind |-> "none", keys |-> {}]]

\* json.loads: the parsed value, or the exception it raises
JsonLoads(d) ==
    IF d.kind = "invalid"
    THEN [ok |-> FALSE, val |-> PyNone, err |-> Error("JSONDecodeError", ExpectingValue)]
    ELSE [ok |-> TRUE,
          val |-> IF d.kind = "object" THEN [t |-> "dict", keys |-> d.keys]
                                       ELSE [t |-> "list", keys |-> {}],
          err |-> NoExc]

\* evaluating the f-string of the connection string: the first lookup that
\* raises, or NoExc
MissingKeys(s) == { i \in 1..Len(CredentialKeys) : CredentialKeys[i] \notin s.keys }

ConnectionStringError(s) ==
    IF s.t # "dict" THEN Error("TypeError", ListIndex)
    ELSE IF MissingKeys(s) = {} THEN NoExc
    ELSE Error("KeyError",
               CredentialKeys[CHOOSE i \in MissingKeys(s) : \A j \in MissingKeys(s) : i <= j])

\* variant: the except clause raises a new error in place of the caught one
GetSecretExceptWrapped(e) == Error("ClientError", SecretErrPrefix)

\* `except Exception as e: ...; raise e` in get_secret
GetSecretExcept(e) == e

\* variant: the except clause raises a generic error in place of the caught one
ConnectExceptGeneric(e) == Error("pyodbc.Error", <<"f","a","i","l","e","d">>)

\* `except Exception as e: ...; raise e` in connect_to_mssql
ConnectExcept(e) == e

\* variant: the handler catches only the driver's errors
CatchesDriverOnly(e) == e.type = "pyodbc.Error"

\* `except Exception` of lambda_handler
Catches(e) == e.type \in ExceptionClasses

\* variant: the body is the formatted text without json.dumps
SuccessResponseRaw(r) ==
    [statusCode |-> StatusOK, body |-> DbVersionPrefix \o PyStr(r.cols[1])]

SuccessResponse(r) ==
    [statusCode |-> StatusOK,
     body |-> JsonDumps(DbVersionPrefix \o PyStr(r.cols[1]))]

ErrorResponse(e) ==
    [statusCode |-> StatusError, body |-> JsonDumps(ErrorPrefix \o ExcStr(e))]

LogRecord(level, msg) == [level |-> level, msg |-> msg]

Answer(call, ok, val) == [call |-> call, ok |-> ok, val |-> val]

NoRaise == [step |-> "none", exc |-> NoExc]

NoPrev == [t |-> "NoneType"]

----------------------------------------------------------------------------
(* Initial state: the module is loaded, no invocation has started *)

Init ==
    /\ pc = "idle"
    /\ event = <<>>
    /\ context = "none"
    /\ requested = <<>>
    /\ response = NoResponse
    /\ secret = PyNone
    /\ connection = "none"
    /\ cursor = "none"
    /\ row = PyNone
    /\ exc = NoExc
    /\ result = PyNone
    /\ logs = <<>>
    /\ steps = <<>>
    /\ responses = <<>>
    /\ raised = NoRaise
    /\ prev = NoPrev
    /\ invocations = 0

Finished == pc \in {"returned", "propagated"}

\* a step raises e: the exception travels to the handler's except clause
Raise(step, e, propagating) ==
    /\ exc' = propagating
    /\ raised' = [step |-> step, exc |-> e]
    /\ pc' = "except"

\* the platform calls lambda_handler(event, context)
Invoke ==
    /\ pc = "idle" \/ Finished
    /\ invocations < MaxInvocations
    /\ \E in \in Inputs :
          /\ event' = in.event
          /\ context' = in.context
    /\ \/ prev' = prev
       \/ /\ pc = "returned"
          /\ prev' = [event |-> event, responses |-> responses, result |-> result]
    /\ invocations' = invocations + 1
    /\ pc' = "create_client"
    /\ requested' = <<>>
    /\ response' = NoResponse
    /\ secret' = PyNone
    /\ connection' = "none"
    /\ cursor' = "none"
    /\ row' = PyNone
    /\ exc' = NoExc
    /\ result' = PyNone
    /\ logs' = <<>>
    /\ steps' = <<>>
    /\ responses' = <<>>
    /\ raised' = NoRaise

\* boto3.client('secretsmanager'), outside the try of get_secret
CreateClient ==
    /\ pc = "create_client"
    /\ steps' = Append(steps, "create_client")
    /\ \/ /\ responses' = Append(responses, Answer("client", TRUE, PyNone))
          /\ pc' = "get_secret_value"
          /\ UNCHANGED <<exc, raised>>
       \/ \E t \in ErrTexts :
             /\ responses' = Append(responses, Answer("client", FALSE, Error("ClientError", t)))
             /\ Raise("create_client", Error("ClientError", t), Error("ClientError", t))
    /\ UNCHANGED <<event, context, requested, response, secret, connection, cursor,
                   row, result, logs, prev, invocations>>

\* variant: a failed get_secret_value is attempted a second time
GetSecretValueRetry ==
    /\ pc = "get_secret_value"
    /\ steps' = Append(steps, "get_secret_value")
    /\ requested' = Append(requested, SecretName)
    /\ \/ \E r \in SecretResponses :
             /\ response' = r
             /\ responses' = Append(responses, Answer("get_secret_value", TRUE, r))
             /\ pc' = "loads"
             /\ UNCHANGED <<exc, raised, logs>>
       \/ \E t \in ErrTexts :
             LET e == Error("ClientError", t) IN
             /\ responses' = Append(responses, Answer("get_secret_value", FALSE, e))
             /\ logs' = Append(logs, LogRecord("ERROR", SecretErrPrefix \o ExcStr(e)))
             /\ IF requested = <<>>
                THEN UNCHANGED <<pc, exc, raised>>
                ELSE Raise("get_secret_value", e, GetSecretExcept(e))
             /\ UNCHANGED response
    /\ UNCHANGED <<event, context, secret, connection, cursor, row, result,
                   prev, invocations>>

\* client.get_secret_value(SecretId=secret_name) and its except clause
GetSecretValue ==
    /\ pc = "get_secret_value"
    /\ steps' = Append(steps, "get_secret_value")
    /\ requested' = Append(requested, SecretName)
    /\ \/ \E r \in SecretResponses :
             /\ response' = r
             /\ responses' = Append(responses, Answer("get_secret_value", TRUE, r))
             /\ pc' = "loads"
             /\ UNCHANGED <<exc, raised, logs>>
       \/ \E t \in ErrTexts :
             LET e == Error("ClientError", t) IN
             /\ responses' = Append(responses, Answer("get_secret_value", FALSE, e))
             /\ logs' = Append(logs, LogRecord("ERROR", SecretErrPrefix \o ExcStr(e)))
             /\ Raise("get_secret_value", e, GetSecretExcept(e))
             /\ UNCHANGED response
    /\ UNCHANGED <<event, context, secret, connection, cursor, row, result,
                   prev, invocations>>

\* get_secret_value_response['SecretString'] and json.loads(secret)
LoadSecret ==
    /\ pc = "loads"
    /\ steps' = Append(steps, "loads")
    /\ IF ~response.hasSecretString
       THEN /\ Raise("loads", Error("KeyError", SecretStringKey), Error("KeyError", SecretStringKey))
            /\ UNCHANGED secret
       ELSE LET parsed == JsonLoads(response.doc) IN
            IF parsed.ok
            THEN /\ secret' = parsed.val
                 /\ pc' = "connect"
                 /\ UNCHANGED <<exc, raised>>
            ELSE /\ Raise("loads", parsed.err, parsed.err)
                 /\ UNCHANGED secret
    /\ UNCHANGED <<event, context, requested, response, connection, cursor, row,
                   result, logs, responses, prev, invocations>>

\* variant: the except clause of connect_to_mssql logs and does not re-raise
ConnectSwallow ==
    /\ pc = "connect"
    /\ steps' = Append(steps, "connect")
    /\ IF ConnectionStringError(secret) # NoExc
       THEN LET e == ConnectionStringError(secret) IN
            /\ logs' = Append(logs, LogRecord("ERROR", ConnectErrPrefix \o ExcStr(e)))
            /\ raised' = [step |-> "connect", exc |-> e]
            /\ pc' = "cursor"
            /\ UNCHANGED <<connection, responses, exc>>
       ELSE \/ /\ connection' = "open"
               /\ responses' = Append(responses, Answer("connect", TRUE, PyNone))
               /\ pc' = "cursor"
               /\ UNCHANGED <<exc, raised, logs>>
            \/ \E t \in ErrTexts :
                  LET e == Error("pyodbc.Error", t) IN
                  /\ responses' = Append(responses, Answer("connect", FALSE, e))
                  /\ logs' = Append(logs, LogRecord("ERROR", ConnectErrPrefix \o ExcStr(e)))
                  /\ raised' = [step |-> "connect", exc |-> e]
                  /\ pc' = "cursor"
                  /\ UNCHANGED <<connection, exc>>
    /\ UNCHANGED <<event, context, requested, response, secret, cursor, row,
                   result, prev, invocations>>

\* connect_to_mssql(secret): the f-string, pyodbc.connect, the except clause
Connect ==
    /\ pc = "connect"
    /\ steps' = Append(steps, "connect")
    /\ IF ConnectionStringError(secret) # NoExc
       THEN LET e == ConnectionStringError(secret) IN
            /\ logs' = Append(logs, LogRecord("ERROR", ConnectErrPrefix \o ExcStr(e)))
            /\ Raise("connect", e, ConnectExcept(e))
            /\ UNCHANGED <<connection, responses>>
       ELSE \/ /\ connection' = "open"
               /\ responses' = Append(responses, Answer("connect", TRUE, PyNone))
               /\ pc' = "cursor"
               /\ UNCHANGED <<exc, raised, logs>>
            \/ \E t \in ErrTexts :
                  LET e == Error("pyodbc.Error", t) IN
                  /\ responses' = Append(responses, Answer("connect", FALSE, e))
                  /\ logs' = Append(logs, LogRecord("ERROR", ConnectErrPrefix \o ExcStr(e)))
                  /\ Raise("connect", e, ConnectExcept(e))
                  /\ UNCHANGED connection
    /\ UNCHANGED <<event, context, requested, response, secret, cursor, row,
                   result, prev, invocations>>

\* cursor = connection.cursor()
Cursor ==
    /\ pc = "cursor"
    /\ steps' = Append(steps, "cursor")
    /\ \/ /\ cursor' = "open"
          /\ responses' = Append(responses, Answer("cursor", TRUE, PyNone))
          /\ pc' = "execute"
          /\ UNCHANGED <<exc, raised>>
       \/ \E t \in ErrTexts :
             LET e == Error("pyodbc.Error", t) IN
             /\ responses' = Append(responses, Answer("cursor", FALSE, e))
             /\ Raise("cursor", e, e)
             /\ UNCHANGED cursor
    /\ UNCHANGED <<event, context, requested, response, secret, connection, row,
                   result, logs, prev, invocations>>

\* cursor.execute("SELECT @@VERSION;")
Execute ==
    /\ pc = "execute"
    /\ steps' = Append(steps, "execute")
    /\ \/ /\ responses' = Append(responses, Answer("execute", TRUE, PyNone))
          /\ pc' = "fetchone"
          /\ UNCHANGED <<exc, raised>>
       \/ \E t \in ErrTexts :
             LET e == Error("pyodbc.Error", t) IN
             /\ responses' = Append(responses, Answer("execute", FALSE, e))
             /\ Raise("execute", e, e)
    /\ UNCHANGED <<event, context, requested, response, secret, connection, cursor,
                   row, result, logs, prev, invocations>>

\* row = cursor.fetchone(): a row, or None when the result set is empty
FetchOne ==
    /\ pc = "fetchone"
    /\ steps' = Append(steps, "fetchone")
    /\ \/ \E r \in { [t |-> "Row", cols |-> <<c>>] : c \in Columns } \cup {PyNone} :
             /\ row' = r
             /\ responses' = Append(responses, Answer("fetchone", TRUE, r))
             /\ pc' = "log_info"
             /\ UNCHANGED <<exc, raised>>
       \/ \E t \in ErrTexts :
             LET e == Error("pyodbc.Error", t) IN
             /\ responses' = Append(responses, Answer("fetchone", FALSE, e))
             /\ Raise("fetchone", e, e)
             /\ UNCHANGED row
    /\ UNCHANGED <<event, context, requested, response, secret, connection, cursor,
                   result, logs, prev, invocations>>

\* logger.info(f"Database version: {row[0]}")
LogInfo ==
    /\ pc = "log_info"
    /\ steps' = Append(steps, "log_info")
    /\ IF row = PyNone
       THEN /\ Raise("log_info", Error("TypeError", NotSubscriptable),
                     Error("TypeError", NotSubscriptable))
            /\ UNCHANGED logs
       ELSE /\ logs' = Append(logs, LogRecord("INFO", DbVersionPrefix \o PyStr(row.cols[1])))
            /\ pc' = "cursor_close"
            /\ UNCHANGED <<exc, raised>>
    /\ UNCHANGED <<event, context, requested, response, secret, connection, cursor,
                   row, result, responses, prev, invocations>>

\* variant: an error of cursor.close() is ignored
CursorCloseSwallow ==
    /\ pc = "cursor_close"
    /\ steps' = Append(steps, "cursor_close")
    /\ \/ /\ cursor' = "closed"
          /\ responses' = Append(responses, Answer("cursor_close", TRUE, PyNone))
          /\ pc' = "connection_close"
          /\ UNCHANGED <<exc, raised>>
       \/ \E t \in ErrTexts :
             LET e == Error("pyodbc.Error", t) IN
             /\ responses' = Append(responses, Answer("cursor_close", FALSE, e))
             /\ raised' = [step |-> "cursor_close", exc |-> e]
             /\ pc' = "connection_close"
             /\ cursor' \in {"open", "closed"}
             /\ UNCHANGED exc
    /\ UNCHANGED <<event, context, requested, response, secret, connection, row,
                   result, logs, prev, invocations>>

\* cursor.close(); a close that raises leaves the cursor in either state
CursorClose ==
    /\ pc = "cursor_close"
    /\ steps' = Append(steps, "cursor_close")
    /\ \/ /\ cursor' = "closed"
          /\ responses' = Append(responses, Answer("cursor_close", TRUE, PyNone))
          /\ pc' = "connection_close"
          /\ UNCHANGED <<exc, raised>>
       \/ \E t \in ErrTexts :
             LET e == Error("pyodbc.Error", t) IN
             /\ responses' = Append(responses, Answer("cursor_close", FALSE, e))
             /\ Raise("cursor_close", e, e)
             /\ cursor' \in {"open", "closed"}
    /\ UNCHANGED <<event, context, requested, response, secret, connection, row,
                   result, logs, prev, invocations>>

\* variant: the handler moves on to the return without calling connection.close()
ConnectionCloseSkipped ==
    /\ pc = "connection_close"
    /\ pc' = "return"
    /\ UNCHANGED <<event, context, requested, response, secret, connection, cursor,
                   row, exc, result, logs, steps, responses, raised, prev, invocations>>

\* connection.close(); a close that raises leaves the connection in either state
ConnectionClose ==
    /\ pc = "connection_close"
    /\ steps' = Append(steps, "connection_close")
    /\ \/ /\ connection' = "closed"
          /\ responses' = Append(responses, Answer("connection_close", TRUE, PyNone))
          /\ pc' = "return"
          /\ UNCHANGED <<exc, raised>>
       \/ \E t \in ErrTexts :
             LET e == Error("pyodbc.Error", t) IN
             /\ responses' = Append(responses, Answer("connection_close", FALSE, e))
             /\ Raise("connection_close", e, e)
             /\ connection' \in {"open", "closed"}
    /\ UNCHANGED <<event, context, requested, response, secret, cursor, row,
                   result, logs, prev, invocations>>

\* variant: the body also carries the event
ReturnSuccessEcho ==
    /\ pc = "return"
    /\ result' = [statusCode |-> StatusOK,
                  body |-> JsonDumps(DbVersionPrefix \o PyStr(row.cols[1]) \o event)]
    /\ pc' = "returned"
    /\ UNCHANGED <<event, context, requested, response, secret, connection, cursor,
                   row, exc, logs, steps, responses, raised, prev, invocations>>

\* return {'statusCode': 200, 'body': json.dumps(f"Database version: {row[0]}")}
ReturnSuccess ==
    /\ pc = "return"
    /\ result' = SuccessResponse(row)
    /\ pc' = "returned"
    /\ UNCHANGED <<event, context, requested, response, secret, connection, cursor,
                   row, exc, logs, steps, responses, raised, prev, invocations>>

\* variant: the except clause releases the connection, as a finally would
ExceptClosing ==
    /\ pc = "except"
    /\ connection' = IF connection = "open" THEN "closed" ELSE connection
    /\ IF Catches(exc)
       THEN /\ logs' = Append(logs, LogRecord("ERROR", HandlerErrPrefix \o ExcStr(exc)))
            /\ result' = ErrorResponse(exc)
            /\ pc' = "returned"
       ELSE /\ pc' = "propagated"
            /\ UNCHANGED <<logs, result>>
    /\ UNCHANGED <<event, context, requested, response, secret, cursor,
                   row, exc, steps, responses, raised, prev, invocations>>

\* except Exception as e: log, return the 500 response; an exception the
\* clause does not match leaves the handler
Except ==
    /\ pc = "except"
    /\ IF Catches(exc)
       THEN /\ logs' = Append(logs, LogRecord("ERROR", HandlerErrPrefix \o ExcStr(exc)))
            /\ result' = ErrorResponse(exc)
            /\ pc' = "returned"
       ELSE /\ pc' = "propagated"
            /\ UNCHANGED <<logs, result>>
    /\ UNCHANGED <<event, context, requested, response, secret, connection, cursor,
                   row, exc, steps, responses, raised, prev, invocations>>

\* the steps of one invocation after it was started
Step ==
    \/ CreateClient
    \/ GetSecretValue
    \/ LoadSecret
    \/ Connect
    \/ Cursor
    \/ Execute
    \/ FetchOne
    \/ LogInfo
    \/ CursorClose
    \/ ConnectionClose
    \/ ReturnSuccess
    \/ Except

Next == Invoke \/ Step

Spec == Init /\ [][Next]_vars

\* every external call returns or raises, so a started invocation keeps moving
FairSpec == Spec /\ WF_vars(Step)


----------------------------------------------------------------------------
(* Helpers of the properties *)

\* needle occurs in hay as a contiguous run of characters
Contains(hay, needle) ==
    \E i \in 0..(Len(hay) - Len(needle)) :
        SubSeq(hay, i + 1, i + Len(needle)) = needle

IsPrefix(s, t) == Len(s) <= Len(t) /\ SubSeq(t, 1, Len(s)) = s

Count(s, x) == Cardinality({ i \in 1..Len(s) : s[i] = x })

StepOrder == <<"create_client", "get_secret_value", "loads", "connect", "cursor",
               "execute", "fetchone", "log_info", "cursor_close", "connection_close">>

Returned == pc = "returned"

AllStepsSucceeded == raised = NoRaise /\ steps = StepOrder

----------------------------------------------------------------------------
(* C1: when every step succeeds and the query returns a row, the handler   *)
(* returns statusCode 200 and the body is the JSON encoding of             *)
(* "Database version: " followed by the first column of that row.          *)
C1_SuccessResponse ==
    (Returned /\ AllStepsSucceeded) =>
        /\ result.statusCode = 200
        /\ result.body = JsonDumps(DbVersionPrefix \o PyStr(row.cols[1]))

C1_Witness ==
    /\ Returned /\ AllStepsSucceeded
    /\ row.cols[1] # PyNone
    /\ Contains(row.cols[1].v, <<"\\">>)
    /\ Contains(result.body, <<"\\", "\\">>)

(* C2: when get_secret_value raises, the handler does not let the          *)
(* exception out: it returns 500 and the body is the JSON encoding of      *)
(* "Error: " followed by str() of that same error.                         *)
C2_SecretFailure ==
    raised.step = "get_secret_value" =>
        /\ pc # "propagated"
        /\ Returned =>
              /\ result.statusCode = 500
              /\ result.body = JsonDumps(ErrorPrefix \o ExcStr(raised.exc))

C2_Witness ==
    /\ Returned
    /\ raised.step = "get_secret_value"
    /\ requested = <<SecretName>>
    /\ result.statusCode = 500

(* C3 as stated: when connect_to_mssql fails, the handler returns 500 and  *)
(* the body contains str() of the error.                                   *)
C3_BodyContainsErrorText ==
    raised.step = "connect" =>
        /\ pc # "propagated"
        /\ Returned =>
              /\ result.statusCode = 500
              /\ Contains(result.body, ExcStr(raised.exc))

(* C3 amended: when connect_to_mssql fails (the driver raises or a         *)
(* credentials key is missing), the handler does not let the exception     *)
(* out: it returns 500 and the body contains the JSON-escaped str() of     *)
(* the error.                                                              *)
C3_ConnectFailure ==
    raised.step = "connect" =>
        /\ pc # "propagated"
        /\ Returned =>
              /\ result.statusCode = 500
              /\ Contains(result.body, JsonEscapeAll(ExcStr(raised.exc)))

C3_Witness ==
    /\ Returned
    /\ raised.step = "connect"
    /\ raised.exc.type = "pyodbc.Error"
    /\ Contains(ExcStr(raised.exc), <<"\"">>)
    /\ connection = "none"

(* C4 as stated: whichever step raises, the handler returns 500 with       *)
(* str() of the error in the body, and no exception leaves the handler.    *)
C4_UniformErrorText ==
    /\ pc # "propagated"
    /\ (Returned /\ raised # NoRaise) =>
          /\ result.statusCode = 500
          /\ Contains(result.body, ExcStr(raised.exc))

(* C4 amended: whichever step raises, the handler returns 500 and the body *)
(* is the JSON encoding of "Error: " followed by str() of the error, and   *)
(* no exception leaves the handler.                                        *)
C4_UniformErrorResponse ==
    /\ pc # "propagated"
    /\ (Returned /\ raised # NoRaise) =>
          /\ result.statusCode = 500
          /\ result.body = JsonDumps(ErrorPrefix \o ExcStr(raised.exc))

C4_Witness ==
    /\ Returned
    /\ raised.step = "log_info"
    /\ row = PyNone
    /\ result.statusCode = 500

(* C5: whenever the handler has returned 200, the cursor and then the      *)
(* connection were closed before the return.                               *)
C5_ClosedOnSuccess ==
    (Returned /\ result.statusCode = 200) =>
        /\ cursor = "closed"
        /\ connection = "closed"
        /\ \E i, j \in 1..Len(steps) :
              /\ i < j
              /\ steps[i] = "cursor_close"
              /\ steps[j] = "connection_close"

C5_Witness ==
    /\ Returned
    /\ result.statusCode = 200
    /\ connection = "closed"
    /\ cursor = "closed"

(* C6: when a step after the connection was opened and before              *)
(* connection.close() raises, the handler returns 500 with the connection  *)
(* still open.                                                             *)
C6_LeakOnFailure ==
    (Returned /\ raised.step \in {"cursor", "execute", "fetchone", "log_info",
                                  "cursor_close"}) =>
        /\ result.statusCode = 500
        /\ connection = "open"

C6_Witness ==
    /\ Returned
    /\ raised.step = "execute"
    /\ result.statusCode = 500
    /\ connection = "open"

(* C7: the steps are attempted in the fixed order, a step starts only      *)
(* after all earlier ones succeeded, nothing is attempted after the step   *)
(* that raised, and a return without an error has performed them all.      *)
C7_FixedOrder ==
    /\ IsPrefix(steps, StepOrder)
    /\ raised # NoRaise =>
          /\ steps # <<>>
          /\ steps[Len(steps)] = raised.step
          /\ pc \in {"except", "returned", "propagated"}
    /\ raised.step \in {"create_client", "get_secret_value", "loads", "connect"} =>
          connection = "none" /\ Count(steps, "execute") = 0
    /\ (Returned /\ raised = NoRaise) => steps = StepOrder

C7_Witness ==
    /\ Returned
    /\ raised.step = "loads"
    /\ Count(steps, "connect") = 0
    /\ connection = "none"

(* C8: in one invocation get_secret_value is called at most once, at most  *)
(* one connection is attempted and the query is executed at most once,     *)
(* also when the call fails.                                               *)
C8_NoRetries ==
    /\ Len(requested) <= 1
    /\ Count(steps, "get_secret_value") <= 1
    /\ Count(steps, "connect") <= 1
    /\ Count(steps, "execute") <= 1
    /\ Cardinality({ i \in 1..Len(responses) : ~responses[i].ok }) <= 1

C8_Witness ==
    /\ Returned
    /\ raised.step = "get_secret_value"
    /\ Count(steps, "get_secret_value") = 1
    /\ Count(steps, "connect") = 0

(* C9: every started invocation ends by returning a record with exactly a  *)
(* statusCode in {200, 500} and a string body; the statusCode is 200       *)
(* exactly when every step through connection.close() succeeded, so a      *)
(* close that raises after the result was logged gives 500.                *)
C9_ResultShape ==
    Returned =>
        /\ DOMAIN result = {"statusCode", "body"}
        /\ result.statusCode \in {200, 500}
        /\ \A i \in 1..Len(result.body) : result.body[i] \in STRING
        /\ result.statusCode = 200 <=> AllStepsSucceeded
        /\ raised.step \in {"cursor_close", "connection_close"} =>
              result.statusCode = 500

C9_TerminatesWithResult ==
    /\ []C9_ResultShape
    /\ (pc \notin {"idle", "returned", "propagated"}) ~> Returned

C9_Witness ==
    /\ Returned
    /\ raised.step = "connection_close"
    /\ result.statusCode = 500
    /\ \E i \in 1..Len(logs) : logs[i].level = "INFO"

(* C10: the result depends only on what the collaborators answered in      *)
(* this invocation: an invocation that received the same answers as an     *)
(* earlier one returns the same result whatever the event and context,     *)
(* and the secret requested is always the fixed name.                      *)
C10_Independent ==
    /\ requested \in {<<>>, <<SecretName>>}
    /\ (Returned /\ prev # NoPrev /\ prev.responses = responses) =>
          prev.result = result

C10_Witness ==
    /\ Returned
    /\ prev # NoPrev
    /\ prev.responses = responses
    /\ prev.event # event
    /\ result.statusCode = 200

=============================================================================
